---- MODULE Spec2Model ----
(***************************************************************************)
(* Model of qa_verify_scoring.py: the DMSt scoring QA script.              *)
(*                                                                         *)
(* main() reads flight records line by line, recomputes the DMSt free and  *)
(* task scores in 12-digit decimal arithmetic, collects one Result per     *)
(* qualifying record and finally reports the mismatches.                   *)
(***************************************************************************)
EXTENDS Integers, Sequences, FiniteSets, TLC

(***************************************************************************)
(* Natural numbers as big-endian digit sequences.  decimal.Decimal keeps   *)
(* its coefficient as a digit string (_int); 12 significant digits do not  *)
(* fit a machine integer, so the coefficient arithmetic is done on digits. *)
(***************************************************************************)
Front(s) == SubSeq(s, 1, Len(s) - 1)

Last(s) == s[Len(s)]

Zeros(n) == [i \in 1..n |-> 0]

RECURSIVE Strip(_)
Strip(d) == IF Len(d) > 1 /\ d[1] = 0 THEN Strip(Tail(d)) ELSE d

IsZeroNat(d) == \A i \in 1..Len(d) : d[i] = 0

PadTo(d, n) == Zeros(n - Len(d)) \o d

MaxOf(a, b) == IF a >= b THEN a ELSE b

MinOf(a, b) == IF a <= b THEN a ELSE b

RECURSIVE LexCmp(_, _)
LexCmp(x, y) ==
    IF x = <<>> THEN 0
    ELSE IF x[1] < y[1] THEN -1
    ELSE IF x[1] > y[1] THEN 1
    ELSE LexCmp(Tail(x), Tail(y))

NatCmp(a, b) ==
    LET n == MaxOf(Len(a), Len(b))
    IN  LexCmp(PadTo(a, n), PadTo(b, n))

RECURSIVE AddC(_, _, _)
AddC(x, y, c) ==
    IF x = <<>> THEN <<c>>
    ELSE LET s == Last(x) + Last(y) + c
         IN  Append(AddC(Front(x), Front(y), s \div 10), s % 10)

NatAdd(a, b) ==
    LET n == MaxOf(Len(a), Len(b))
    IN  Strip(AddC(PadTo(a, n), PadTo(b, n), 0))

RECURSIVE SubC(_, _, _)
SubC(x, y, b) ==
    IF x = <<>> THEN <<>>
    ELSE LET s == Last(x) - Last(y) - b
         IN  IF s < 0 THEN Append(SubC(Front(x), Front(y), 1), s + 10)
                      ELSE Append(SubC(Front(x), Front(y), 0), s)

\* a - b for a >= b
NatSub(a, b) ==
    LET n == MaxOf(Len(a), Len(b))
    IN  Strip(SubC(PadTo(a, n), PadTo(b, n), 0))

RECURSIVE MulC(_, _, _)
MulC(x, k, c) ==
    IF x = <<>> THEN <<c>>
    ELSE LET p == Last(x) * k + c
         IN  Append(MulC(Front(x), k, p \div 10), p % 10)

\* a * k for a digit k
MulDigit(a, k) == Strip(MulC(a, k, 0))

RECURSIVE NatMul(_, _)
NatMul(a, b) ==
    IF b = <<>> THEN <<0>>
    ELSE NatAdd(Append(NatMul(a, Front(b)), 0), MulDigit(a, Last(b)))

RECURSIVE NatToInt(_, _)
NatToInt(d, acc) == IF d = <<>> THEN acc ELSE NatToInt(Tail(d), 10 * acc + d[1])

RECURSIVE IntDigits(_)
IntDigits(n) == IF n < 10 THEN <<n>> ELSE Append(IntDigits(n \div 10), n % 10)

\* long division of the digits x by the integer k, remainder r so far
RECURSIVE DivR(_, _, _, _)
DivR(x, k, r, q) ==
    IF x = <<>> THEN [quot |-> Strip(q), rem |-> IntDigits(r)]
    ELSE LET t == 10 * r + x[1]
         IN  DivR(Tail(x), k, t % k, Append(q, t \div k))

\* divmod(a, b) for b > 0; the divisors of main() are Decimal(100) and
\* idx_factor, whose coefficient is a machine integer
NatDivMod(a, b) == DivR(a, NatToInt(b, 0), 0, <<0>>)

(***************************************************************************)
(* decimal.Decimal under getcontext().prec = 12 (ROUND_HALF_EVEN, the      *)
(* default context rounding).  A Decimal is (_sign, _int, _exp): the value *)
(* (-1)^sign * int * 10^exp.  Every operation computes the exact result    *)
(* and rounds it to the context precision (Decimal._fix).                  *)
(***************************************************************************)
Prec == 12

Dec(s, c, e) == [sign |-> s, int |-> c, exp |-> e]

\* Decimal(n) for a Python int n
DecFromInt(n) == IF n < 0 THEN Dec(1, IntDigits(-n), 0) ELSE Dec(0, IntDigits(n), 0)

\* Decimal(str(x)) for the JSON number x written n * 10^e
DecLit(n, e) == [DecFromInt(n) EXCEPT !.exp = e]

DecIsZero(d) == IsZeroNat(d.int)

\* Decimal._fix: round the coefficient half-even to Prec digits
Fix(d) ==
    LET c == Strip(d.int)
        n == Len(c)
    IN  IF n <= Prec THEN Dec(d.sign, c, d.exp)
        ELSE LET kept == SubSeq(c, 1, Prec)
                 rest == SubSeq(c, Prec + 1, n)
                 half == <<5>> \o Zeros(Len(rest) - 1)
                 cmp  == LexCmp(rest, half)
                 up   == cmp > 0 \/ (cmp = 0 /\ kept[Prec] % 2 = 1)
                 k2   == IF up THEN NatAdd(kept, <<1>>) ELSE kept
             IN  IF Len(k2) > Prec
                 THEN Dec(d.sign, Front(k2), d.exp + (n - Prec) + 1)
                 ELSE Dec(d.sign, k2, d.exp + (n - Prec))

\* Decimal.__mul__
DecMul(a, b) ==
    Fix(Dec((a.sign + b.sign) % 2, NatMul(a.int, b.int), a.exp + b.exp))

\* the exact sum, before rounding
ExactAdd(a, b) ==
    LET e  == MinOf(a.exp, b.exp)
        ca == Strip(a.int \o Zeros(a.exp - e))
        cb == Strip(b.int \o Zeros(b.exp - e))
        c  == NatCmp(ca, cb)
    IN  IF a.sign = b.sign THEN Dec(a.sign, NatAdd(ca, cb), e)
        ELSE IF c = 0 THEN Dec(0, <<0>>, e)
        ELSE IF c > 0 THEN Dec(a.sign, NatSub(ca, cb), e)
        ELSE Dec(b.sign, NatSub(cb, ca), e)

\* Decimal.__add__
DecAdd(a, b) == Fix(ExactAdd(a, b))

DecNeg(a) == [a EXCEPT !.sign = IF DecIsZero(a) THEN 0 ELSE 1 - a.sign]

\* Decimal.__sub__
DecSub(a, b) == DecAdd(a, DecNeg(b))

\* Decimal.__abs__
DecAbs(a) == Fix([a EXCEPT !.sign = 0])

\* Decimal._cmp: -1, 0 or 1
DecCmp(a, b) ==
    LET d == ExactAdd(a, DecNeg(b))
    IN  IF DecIsZero(d) THEN 0 ELSE IF d.sign = 1 THEN -1 ELSE 1

DecEq(a, b) == DecCmp(a, b) = 0

DecLe(a, b) == DecCmp(a, b) <= 0

RECURSIVE TowardIdeal(_, _, _)
TowardIdeal(c, e, ideal) ==
    IF e < ideal /\ Len(c) > 1 /\ Last(c) = 0
    THEN TowardIdeal(Front(c), e + 1, ideal)
    ELSE [int |-> c, exp |-> IF IsZeroNat(c) THEN ideal ELSE e]

\* Decimal.__truediv__ for a nonzero divisor b
DecDiv(a, b) ==
    LET shift == Len(b.int) - Len(a.int) + Prec + 1
        e     == a.exp - b.exp - shift
        dm    == IF shift >= 0
                 THEN NatDivMod(a.int \o Zeros(shift), b.int)
                 ELSE NatDivMod(a.int, b.int \o Zeros(-shift))
        s     == (a.sign + b.sign) % 2
    IN  IF ~IsZeroNat(dm.rem)
        THEN Fix(Dec(s, IF Last(dm.quot) % 5 = 0
                        THEN NatAdd(dm.quot, <<1>>) ELSE dm.quot, e))
        ELSE LET t == TowardIdeal(dm.quot, e, a.exp - b.exp)
             IN  Fix(Dec(s, t.int, t.exp))

(***************************************************************************)
(* Values read from the JSON line.  dict.get of an absent key gives None,  *)
(* as a JSON null does, so both are JNull.  A string is its sequence of    *)
(* characters.  A number n * 10^e is written JInt(n) or JFloat(n, e).      *)
(***************************************************************************)
JNull == [t |-> "null", n |-> 0, e |-> 0, s |-> <<>>]

JBool(b) == [t |-> "bool", n |-> IF b THEN 1 ELSE 0, e |-> 0, s |-> <<>>]

JInt(k) == [t |-> "int", n |-> k, e |-> 0, s |-> <<>>]

JFloat(k, x) == [t |-> "float", n |-> k, e |-> x, s |-> <<>>]

JStr(str) == [t |-> "str", n |-> 0, e |-> 0, s |-> str]

\* Python truthiness: bool(v)
Truthy(v) ==
    CASE v.t = "null" -> FALSE
      [] v.t = "str" -> Len(v.s) > 0
      [] OTHER -> v.n # 0

\* v is True / v is False / v is None
IsTrue(v) == v.t = "bool" /\ v.n = 1

IsFalse(v) == v.t = "bool" /\ v.n = 0

IsNone(v) == v.t = "null"

RECURSIVE Pow10(_)
Pow10(k) == IF k = 0 THEN 1 ELSE 10 * Pow10(k - 1)

DigitChars == <<"0","1","2","3","4","5","6","7","8","9">>

RECURSIVE ParseInt(_, _)
ParseInt(str, acc) ==
    IF str = <<>> THEN acc
    ELSE ParseInt(Tail(str),
                  10 * acc + (CHOOSE d \in 0..9 : DigitChars[d + 1] = str[1]))

\* int(v) of line 98: an int as it is, a float truncated toward zero, a
\* string of digits parsed
IntOf(v) ==
    CASE v.t = "str" -> ParseInt(v.s, 0)
      [] v.t = "float" ->
            IF v.e >= 0 THEN v.n * Pow10(v.e)
            ELSE IF v.n >= 0 THEN v.n \div Pow10(-v.e)
            ELSE -((-v.n) \div Pow10(-v.e))
      [] OTHER -> v.n

\* Decimal(str(v)) for a JSON number v
DecOf(v) == DecLit(v.n, v.e)

Lower == <<"a","b","c","d","e","f","g","h","i","j","k","l","m",
           "n","o","p","q","r","s","t","u","v","w","x","y","z">>

Upper == <<"A","B","C","D","E","F","G","H","I","J","K","L","M",
           "N","O","P","Q","R","S","T","U","V","W","X","Y","Z">>

UpperChar(c) ==
    IF \E i \in 1..26 : Lower[i] = c
    THEN Upper[CHOOSE i \in 1..26 : Lower[i] = c]
    ELSE c

\* str.upper()
StrUpper(str) == [i \in 1..Len(str) |-> UpperChar(str[i])]

None == <<>>

Some(x) == <<x>>

D0 == Dec(0, <<0>>, 0)

D1 == Dec(0, <<1>>, 0)

D020 == Dec(0, <<2, 0>>, -2)

D030 == Dec(0, <<3, 0>>, -2)

D040 == Dec(0, <<4, 0>>, -2)

D00 == Dec(0, <<0>>, -1)

\* TOLERANCE = Decimal("0.2")
TOLERANCE == Dec(0, <<2>>, -1)

\* DMST_BONUS: the keys and their bonus
DMST_BONUS ==
    << <<<<"T","R">>, D040>>,
       <<<<"T","R","I","A","N","G","L","E">>, D040>>,
       <<<<"D","E","C","L","A","R","A","T","I","O","N">>, D030>>,
       <<<<"O","R">>, D030>>,
       <<<<"O","U","T","_","R","E","T","U","R","N">>, D030>>,
       <<<<"G","L">>, D030>>,
       <<<<"O","U","T">>, D030>>,
       <<<<"G","O","A","L">>, D030>>,
       <<<<"R","T">>, D040>>,
       <<<<"R","E","C","T","A","N","G","L","E">>, D040>>,
       <<<<"M","T","R">>, D020>>,
       <<<<"F","R">>, D00>>,
       <<<<"F","R","4">>, D00>>,
       <<<<"S","P">>, D00>>,
       <<<<"S","P","E","E","D">>, D00>>
    >>

\* DMST_BONUS.get(key, Decimal("0"))
BonusGet(key) ==
    IF \E i \in 1..Len(DMST_BONUS) : DMST_BONUS[i][1] = key
    THEN DMST_BONUS[CHOOSE i \in 1..Len(DMST_BONUS) : DMST_BONUS[i][1] = key][2]
    ELSE D0

\* get_bonus(kind); str(kind) of a string is the string
get_bonus(kind) ==
    IF ~Truthy(kind) THEN D0
    ELSE BonusGet(StrUpper(kind.s))

(***************************************************************************)
(* The flight record of one line and the Result built from it.             *)
(***************************************************************************)
NoScore == [t |-> "null", distance |-> JNull, name |-> JNull, declared |-> JNull]

Score(d, n, decl) == [t |-> "dict", distance |-> d, name |-> n, declared |-> decl]

Contest(n, pts, sc) == [name |-> n, points |-> pts, score |-> sc]

NoTask == [t |-> "null", distance |-> JNull, kind |-> JNull]

EmptyTask == [t |-> "empty", distance |-> JNull, kind |-> JNull]

Task(d, k) == [t |-> "dict", distance |-> d, kind |-> k]

NoContests == [t |-> "null", items |-> <<>>]

Contests(cs) == [t |-> "list", items |-> cs]

Flight(i, h, cs, tk, ach) ==
    [id |-> i, dmst_index |-> h, contest |-> cs, task |-> tk, task_achieved |-> ach]

NoFlight == Flight(JNull, JNull, NoContests, NoTask, JNull)

\* variant: a Result whose free_actual is wired to a value
NewResult_WiredActual(flight_id, dmst_index) ==
    [flight_id |-> flight_id, dmst_index |-> dmst_index,
     free_expected |-> None, free_actual |-> Some(D0),
     task_expected |-> None, task_actual |-> None, task_notes |-> ""]

\* Result.__init__
NewResult(flight_id, dmst_index) ==
    [flight_id |-> flight_id, dmst_index |-> dmst_index,
     free_expected |-> None, free_actual |-> None,
     task_expected |-> None, task_actual |-> None, task_notes |-> ""]

NoRes == NewResult(JNull, 0)

\* variant: the tolerance is exclusive
free_matches_Strict(r) ==
    IF r.free_expected = None \/ r.free_actual = None THEN TRUE
    ELSE DecCmp(DecAbs(DecSub(r.free_expected[1], r.free_actual[1])), TOLERANCE) < 0

\* variant: a missing actual value against a computed one is a mismatch
free_matches_NullActual(r) ==
    IF r.free_expected = None THEN TRUE
    ELSE IF r.free_actual = None THEN FALSE
    ELSE DecLe(DecAbs(DecSub(r.free_expected[1], r.free_actual[1])), TOLERANCE)

\* Result.free_matches
free_matches(r) ==
    IF r.free_expected = None \/ r.free_actual = None THEN TRUE
    ELSE DecLe(DecAbs(DecSub(r.free_expected[1], r.free_actual[1])), TOLERANCE)

\* Result.task_matches
task_matches(r) ==
    IF r.task_expected = None \/ r.task_actual = None THEN TRUE
    ELSE DecLe(DecAbs(DecSub(r.task_expected[1], r.task_actual[1])), TOLERANCE)

S_au == <<"a", "u">>

\* line 95-98: the handicap index as main() uses it, 0 when it is falsy
DmstIndex(f) == IF Truthy(f.dmst_index) THEN IntOf(f.dmst_index) ELSE 0

\* line 99: idx_factor = Decimal(dmst_index) / Decimal(100)
IdxFactor(f) == DecDiv(DecFromInt(DmstIndex(f)), DecFromInt(100))

\* variant: only the falsy test of line 96, without the test of line 100
SkipIndex_FalsyOnly(f) == ~Truthy(f.dmst_index)

\* lines 96-101: the two `continue` on the handicap index
SkipIndex(f) == ~Truthy(f.dmst_index) \/ DecIsZero(IdxFactor(f))

\* variant: the contest name is matched without regard to case
AuIndex_AnyCase(f) ==
    LET cs == f.contest.items
        hit == {i \in 1..Len(cs) : cs[i].name \in {JStr(S_au), JStr(<<"A", "U">>)}}
    IN  IF hit = {} THEN 0 ELSE CHOOSE i \in hit : \A j \in hit : i <= j

\* line 105-106: next((c for c in contests if c.get("name") == "au"), None)
AuIndex(f) ==
    LET cs == f.contest.items
        hit == {i \in 1..Len(cs) : cs[i].name = JStr(S_au)}
    IN  IF hit = {} THEN 0 ELSE CHOOSE i \in hit : \A j \in hit : i <= j

HasAu(f) == AuIndex(f) # 0

AuContest(f) == f.contest.items[AuIndex(f)]

\* line 112: au_points (read, never used afterwards)
au_points(f) == AuContest(f).points

\* line 113: score = au_contest.get("score") or {}
AuScore(f) == AuContest(f).score

au_score_distance(f) == AuScore(f).distance

au_score_name(f) == AuScore(f).name

au_declared(f) == AuScore(f).declared

\* lines 123-128
task_distance(f) == IF f.task.t = "dict" THEN f.task.distance ELSE JNull

task_kind(f) == IF f.task.t = "dict" THEN f.task.kind ELSE JNull

\* line 130
task_achieved(f) == IsTrue(f.task_achieved)

\* variant: the distance is tested against None instead of for truth
FreeStep_NotNone(f, res, idx_factor) ==
    IF ~IsNone(au_score_distance(f))
    THEN [res EXCEPT !.free_expected =
            Some(DecDiv(DecMul(DecOf(au_score_distance(f)),
                               DecAdd(D1, get_bonus(au_score_name(f)))),
                        idx_factor))]
    ELSE res

\* lines 118-121
FreeStep(f, res, idx_factor) ==
    IF Truthy(au_score_distance(f))
    THEN [res EXCEPT !.free_expected =
            Some(DecDiv(DecMul(DecOf(au_score_distance(f)),
                               DecAdd(D1, get_bonus(au_score_name(f)))),
                        idx_factor))]
    ELSE res

\* variant: path 1 adds the achieved bonus whatever task_achieved is
TaskStep_AlwaysAchieved(f, res, idx_factor) ==
    IF Truthy(task_distance(f))
    THEN LET base == DecOf(task_distance(f))
             bonus == get_bonus(task_kind(f))
             multiplier_actual == DecAdd(DecAdd(D1, bonus), D030)
         IN  [res EXCEPT !.task_expected = Some(DecDiv(DecMul(base, multiplier_actual), idx_factor)),
                         !.task_notes = "actual"]
    ELSE IF Truthy(au_declared(f)) /\ Truthy(au_score_distance(f))
    THEN LET base == DecOf(au_score_distance(f))
             bonus == get_bonus(au_score_name(f))
             multiplier_actual == DecAdd(DecAdd(D1, bonus), D030)
         IN  [res EXCEPT !.task_expected = Some(DecDiv(DecMul(base, multiplier_actual), idx_factor)),
                         !.task_notes = "from au distance"]
    ELSE res

\* variant: both paths leave the note "actual"
TaskStep_NoteActual(f, res, idx_factor) ==
    IF Truthy(task_distance(f))
    THEN LET base == DecOf(task_distance(f))
             bonus == get_bonus(task_kind(f))
             multiplier_actual ==
                 DecAdd(DecAdd(D1, bonus), IF task_achieved(f) THEN D030 ELSE D0)
         IN  [res EXCEPT !.task_expected = Some(DecDiv(DecMul(base, multiplier_actual), idx_factor)),
                         !.task_notes = "actual"]
    ELSE IF Truthy(au_declared(f)) /\ Truthy(au_score_distance(f))
    THEN LET base == DecOf(au_score_distance(f))
             bonus == get_bonus(au_score_name(f))
             multiplier_actual == DecAdd(DecAdd(D1, bonus), D030)
         IN  [res EXCEPT !.task_expected = Some(DecDiv(DecMul(base, multiplier_actual), idx_factor)),
                         !.task_notes = "actual"]
    ELSE res

\* lines 132-145
TaskStep(f, res, idx_factor) ==
    IF Truthy(task_distance(f))
    THEN LET base == DecOf(task_distance(f))
             bonus == get_bonus(task_kind(f))
             multiplier_actual ==
                 DecAdd(DecAdd(D1, bonus), IF task_achieved(f) THEN D030 ELSE D0)
         IN  [res EXCEPT !.task_expected = Some(DecDiv(DecMul(base, multiplier_actual), idx_factor)),
                         !.task_notes = "actual"]
    ELSE IF Truthy(au_declared(f)) /\ Truthy(au_score_distance(f))
    THEN LET base == DecOf(au_score_distance(f))
             bonus == get_bonus(au_score_name(f))
             m1 == DecAdd(D1, bonus)
             multiplier_actual == IF Truthy(au_declared(f)) THEN DecAdd(m1, D030) ELSE m1
         IN  [res EXCEPT !.task_expected = Some(DecDiv(DecMul(base, multiplier_actual), idx_factor)),
                         !.task_notes = "from au distance"]
    ELSE res

\* variant: no override
Override_Dropped(f, res) == res

\* lines 147-148
Override(f, res) ==
    IF IsFalse(au_declared(f)) /\ res.free_expected # None
    THEN [res EXCEPT !.task_expected = None]
    ELSE res

\* a division of lines 121, 136 or 144 is executed
Divides(f) == Truthy(au_score_distance(f)) \/ Truthy(task_distance(f))

(***************************************************************************)
(* The report of lines 152-171.  A Result object is referred to by its     *)
(* position in results: Result defines no __eq__, so `r in free_mismatches`*)
(* is identity of objects.                                                 *)
(***************************************************************************)
SampleSize == 10

\* the members of the index set S in increasing order
Ascending(S) ==
    [k \in 1..Cardinality(S) |->
        CHOOSE i \in S : Cardinality({j \in S : j < i}) = k - 1]

\* line 152
FreeMismatches(rs) == Ascending({i \in 1..Len(rs) : ~free_matches(rs[i])})

\* line 153
TaskMismatches(rs) == Ascending({i \in 1..Len(rs) : ~task_matches(rs[i])})

Summary(kind, n) ==
    [fmt |-> kind, n |-> n, flight_id |-> JNull, dmst_index |-> 0,
     calc |-> None, api |-> None, notes |-> ""]

\* line 162: the line "flight .. -> calc {free_expected} / api {free_actual}"
FreeLine(r) ==
    [fmt |-> "free", n |-> 0, flight_id |-> r.flight_id, dmst_index |-> r.dmst_index,
     calc |-> r.free_expected, api |-> r.free_actual, notes |-> ""]

\* line 163: "flight .. -> calc {task_expected} / api {task_actual} [{task_notes}]"
TaskLine(r) ==
    [fmt |-> "task", n |-> 0, flight_id |-> r.flight_id, dmst_index |-> r.dmst_index,
     calc |-> r.task_expected, api |-> r.task_actual, notes |-> r.task_notes]

InSeq(x, sq) == \E k \in 1..Len(sq) : sq[k] = x

\* lines 159-164: show(items), with free_mismatches of the enclosing scope
show(items, fm, rs) ==
    [k \in 1..MinOf(Len(items), SampleSize) |->
        IF InSeq(items[k], fm) THEN FreeLine(rs[items[k]]) ELSE TaskLine(rs[items[k]])]

\* lines 155-171: everything printed
Printed(rs, fm, tm) ==
    << Summary("checked", Len(rs)),
       Summary("free_count", Len(fm)),
       Summary("task_count", Len(tm)) >>
    \o (IF fm # <<>> THEN <<Summary("free_header", 0)>> \o show(fm, fm, rs) ELSE <<>>)
    \o (IF tm # <<>> THEN <<Summary("task_header", 0)>> \o show(tm, fm, rs) ELSE <<>>)

(***************************************************************************)
(* main() as a state machine.  pc is the position in main():               *)
(*   "loop"      line 90, before the next line is read                     *)
(*   "override"  line 147, the record is scored, the override is next      *)
(*   "done"      after line 171                                            *)
(*   "error"     an exception left main()                                  *)
(* read is the part of the file consumed so far, lineno its length.        *)
(***************************************************************************)
VARIABLES pc, read, lineno, flight, res, results, free_mismatches, task_mismatches, out

vars == <<pc, read, lineno, flight, res, results, free_mismatches, task_mismatches, out>>

BlankLine == [blank |-> TRUE, flight |-> NoFlight]

FlightLine(f) == [blank |-> FALSE, flight |-> f]

\* lines 90-145 for one line of the file
ReadAndScore(line, max) ==
    LET f == line.flight
        skip == line.blank \/ SkipIndex(f) \/ ~HasAu(f)
        idx_factor == IdxFactor(f)
        raises == Divides(f) /\ DecIsZero(idx_factor)
        r0 == NewResult(f.id, DmstIndex(f))
    IN  /\ pc = "loop"
        /\ lineno < max
        /\ lineno' = lineno + 1
        /\ read' = Append(read, line)
        /\ flight' = IF line.blank THEN flight ELSE f
        /\ res' = IF line.blank \/ SkipIndex(f) THEN res
                  ELSE IF skip \/ raises THEN r0
                  ELSE TaskStep(f, FreeStep(f, r0, idx_factor), idx_factor)
        /\ pc' = IF skip THEN "loop"
                 ELSE IF raises THEN "error"
                 ELSE "override"
        /\ UNCHANGED <<results, free_mismatches, task_mismatches, out>>

\* lines 147-150
OverrideAndAppend ==
    /\ pc = "override"
    /\ res' = Override(flight, res)
    /\ results' = Append(results, res')
    /\ pc' = "loop"
    /\ UNCHANGED <<read, lineno, flight, free_mismatches, task_mismatches, out>>

\* lines 152-171, once the file is exhausted
Report ==
    /\ pc = "loop"
    /\ free_mismatches' = FreeMismatches(results)
    /\ task_mismatches' = TaskMismatches(results)
    /\ out' = Printed(results, free_mismatches', task_mismatches')
    /\ pc' = "done"
    /\ UNCHANGED <<read, lineno, flight, res, results>>

(***************************************************************************)
(* The lines a file may hold.  Every record carries its line number as id. *)
(***************************************************************************)
MaxLines == 1

S_tr == <<"t", "r">>

S_MTR == <<"M", "T", "R">>

S_zz == <<"z", "z">>

S_SP == <<"S", "P">>

S_Goal == <<"G", "o", "a", "l">>

S_free == <<"f", "r", "e", "e">>

S_AU == <<"A", "U">>

Points == JFloat(4201, -1)

FreeContest == Contest(JStr(S_free), JInt(400), Score(JInt(300), JStr(S_free), JNull))

\* the declared flag: absent, true, false, and the non-boolean 0 and 1
Declareds == {JNull, JBool(TRUE), JBool(FALSE), JInt(0), JInt(1)}

\* the task sub-record: absent, {}, without distance, zero distance, a distance
TaskShapes == {NoTask, EmptyTask, Task(JNull, JStr(S_SP)), Task(JInt(0), JStr(S_SP)),
               Task(JInt(250), JStr(S_SP))}

AuFlight(h, sc, tk, ach) ==
    Flight(JNull, h, Contests(<<FreeContest, Contest(JStr(S_au), Points, sc)>>), tk, ach)

\* every distance, declared flag and task shape
CoreFlights ==
    { AuFlight(JInt(108), Score(d, JStr(S_tr), decl), tk, JBool(TRUE)) :
        d \in {JNull, JInt(0), JInt(300)}, decl \in Declareds, tk \in TaskShapes }

\* every kind of score name
NameFlights ==
    { AuFlight(JInt(108), Score(JFloat(3125, -1), n, decl), tk, JNull) :
        n \in {JNull, JStr(<<>>), JStr(S_MTR), JStr(S_zz)},
        decl \in {JNull, JBool(TRUE), JBool(FALSE)},
        tk \in {NoTask, Task(JInt(250), JStr(S_SP))} }

\* every kind of task kind and achieved flag
KindFlights ==
    { AuFlight(JInt(108), Score(JInt(300), JStr(S_tr), decl), Task(JInt(250), k), ach) :
        decl \in {JBool(TRUE), JBool(FALSE)},
        k \in {JNull, JStr(S_SP), JStr(S_Goal)},
        ach \in {JNull, JBool(TRUE), JBool(FALSE), JInt(1)} }

\* handicap index 100, the au contest first or alone, a score that is null
PlainFlights ==
    { Flight(JNull, JInt(100), Contests(<<Contest(JStr(S_au), JNull, sc)>>), tk, ach) :
        sc \in {NoScore, Score(JInt(300), JStr(<<"T", "R">>), JBool(TRUE)),
                Score(JInt(300), JStr(<<"T", "R">>), JBool(FALSE))},
        tk \in {NoTask, Task(JInt(200), JStr(<<"G", "O", "A", "L">>))},
        ach \in {JNull, JBool(TRUE)} }

\* a handicap index that is absent, zero, or truncates to zero
NoIndexFlights ==
    { AuFlight(h, Score(JInt(300), JStr(S_tr), JBool(TRUE)), Task(JInt(250), JStr(S_SP)), JBool(TRUE)) :
        h \in {JNull, JInt(0), JFloat(5, -1), JStr(<<"0">>)} }

\* no contest named exactly "au"
NoAuFlights ==
    { Flight(JNull, JInt(100), cs, Task(JInt(250), JStr(S_SP)), JBool(TRUE)) :
        cs \in {NoContests, Contests(<<>>), Contests(<<FreeContest>>),
                Contests(<<Contest(JStr(S_AU), Points,
                                   Score(JInt(300), JStr(S_tr), JBool(TRUE)))>>)} }

Flights ==
    CoreFlights \cup NameFlights \cup KindFlights \cup PlainFlights
        \cup NoIndexFlights \cup NoAuFlights

Lines(i) == {BlankLine} \cup { FlightLine([f EXCEPT !.id = JInt(i)]) : f \in Flights }

Init ==
    /\ pc = "loop"
    /\ read = <<>>
    /\ lineno = 0
    /\ flight = NoFlight
    /\ res = NoRes
    /\ results = <<>>
    /\ free_mismatches = <<>>
    /\ task_mismatches = <<>>
    /\ out = <<>>

ReadLine == \E line \in Lines(lineno + 1) : ReadAndScore(line, MaxLines)

Next == ReadLine \/ OverrideAndAppend \/ Report

\* main() on a file of at most MaxLines lines
Spec == Init /\ [][Next]_vars

(***************************************************************************)
(* main() on longer files of fewer kinds of line.                          *)
(***************************************************************************)
MaxBatch == 3

BatchFlights ==
    NoIndexFlights
    \cup { Flight(JNull, JInt(100), cs, NoTask, JNull) :
             cs \in {Contests(<<FreeContest>>),
                     Contests(<<Contest(JStr(S_AU), Points,
                                        Score(JInt(300), JStr(S_tr), JBool(TRUE)))>>)} }
    \cup { AuFlight(JInt(100), Score(JInt(300), JStr(<<"T", "R">>), JBool(TRUE)), NoTask, JNull),
           AuFlight(JInt(108), Score(JNull, JStr(S_tr), JNull), NoTask, JNull),
           AuFlight(JInt(108), Score(JInt(300), JStr(S_tr), JBool(FALSE)),
                    Task(JInt(200), JStr(S_Goal)), JBool(TRUE)) }

BatchLines(i) == {BlankLine} \cup { FlightLine([f EXCEPT !.id = JInt(i)]) : f \in BatchFlights }

ReadBatchLine == \E line \in BatchLines(lineno + 1) : ReadAndScore(line, MaxBatch)

NextBatch == ReadBatchLine \/ OverrideAndAppend \/ Report

SpecBatch == Init /\ [][NextBatch]_vars

(***************************************************************************)
(* The report alone (lines 152-171), applied to lists of Result objects    *)
(* whose expected and actual values are filled in.  The values have at     *)
(* most nine decimal places and are below 1000, so that a difference of    *)
(* two of them has at most Prec digits.                                    *)
(***************************************************************************)
MaxResults == 1

E420 == Dec(0, <<4, 2, 0, 0, 0>>, -2)

E388 == Dec(0, <<3, 8, 8, 8, 8, 8, 8, 8, 8, 8, 8, 9>>, -9)

E510 == Dec(0, <<5, 1, 0, 0, 0>>, -2)

\* (free_expected, free_actual)
FreePairs ==
    { <<None, None>>, <<Some(E420), None>>, <<None, Some(E420)>>,
      <<Some(E420), Some(E420)>>,
      <<Some(E420), Some(Dec(0, <<4, 2, 0, 2>>, -1))>>,
      <<Some(E420), Some(Dec(0, <<4, 1, 9, 8>>, -1))>>,
      <<Some(E420), Some(Dec(0, <<4, 2, 0, 2, 0, 0, 0, 0, 0, 1>>, -7))>>,
      <<Some(E420), Some(Dec(0, <<4, 1, 9, 7, 9, 9, 9, 9, 9, 9>>, -7))>>,
      <<Some(E388), Some(Dec(0, <<3, 8, 8, 6, 8, 8, 8, 8, 8, 8, 8, 9>>, -9))>>,
      <<Some(E388), Some(Dec(0, <<3, 8, 8, 6, 8, 8, 8, 8, 8, 8, 8, 8>>, -9))>>,
      <<Some(E388), Some(Dec(0, <<3, 8, 9, 0, 8, 8, 8, 8, 8, 8, 9>>, -8))>> }

\* (task_expected, task_actual, task_notes)
TaskTriples ==
    { <<None, None, "">>, <<Some(E510), None, "actual">>, <<None, Some(E510), "">>,
      <<Some(E510), Some(Dec(0, <<5, 0, 0>>, 0)), "actual">>,
      <<Some(E510), Some(Dec(0, <<5, 1, 0, 2>>, -1)), "from au distance">>,
      <<Some(Dec(0, <<5, 0, 9, 8>>, -1)), Some(E510), "from au distance">>,
      <<Some(Dec(0, <<5, 0, 9, 7, 9, 9, 9, 9, 9, 9>>, -7)), Some(E510), "actual">> }

FilledResult(fp, tt) ==
    [NewResult(JNull, 100) EXCEPT !.free_expected = fp[1], !.free_actual = fp[2],
                                  !.task_expected = tt[1], !.task_actual = tt[2],
                                  !.task_notes = tt[3]]

FreeOut == <<Some(E420), Some(Dec(0, <<4, 2, 1>>, 0))>>

TaskOut == <<Some(E510), Some(Dec(0, <<5, 0, 0>>, 0)), "actual">>

ReportResults == { FilledResult(fp, tt) : fp \in FreePairs, tt \in TaskTriples }

\* more results than one sample section shows
LongResults == { FilledResult(FreeOut, TaskOut), FilledResult(<<None, None>>, TaskOut) }

Numbered(sq) == [i \in 1..Len(sq) |-> [sq[i] EXCEPT !.flight_id = JInt(i)]]

ResultLists ==
    { Numbered(sq) : sq \in UNION { [1..n -> ReportResults] : n \in 0..MaxResults } }
    \cup { Numbered(sq) : sq \in [1..(SampleSize + 1) -> LongResults] }

InitReport ==
    /\ pc = "loop"
    /\ read = <<>>
    /\ lineno = 0
    /\ flight = NoFlight
    /\ res = NoRes
    /\ results \in ResultLists
    /\ free_mismatches = <<>>
    /\ task_mismatches = <<>>
    /\ out = <<>>

NextReport == Report

SpecReport == InitReport /\ [][NextReport]_vars

(***************************************************************************)
(* The claims.  The scoring rule is restated here from the specification:  *)
(* the bonus table by lower-cased kind, the index factor, the score.       *)
(***************************************************************************)
LowerChar(c) ==
    IF \E i \in 1..26 : Upper[i] = c
    THEN Lower[CHOOSE i \in 1..26 : Upper[i] = c]
    ELSE c

StrLower(str) == [i \in 1..Len(str) |-> LowerChar(str[i])]

Kinds40 == {<<"t", "r">>, <<"t", "r", "i", "a", "n", "g", "l", "e">>, <<"r", "t">>, <<"r", "e", "c", "t", "a", "n", "g", "l", "e">>}

Kinds30 == {<<"d", "e", "c", "l", "a", "r", "a", "t", "i", "o", "n">>,
            <<"o", "r">>,
            <<"o", "u", "t", "_", "r", "e", "t", "u", "r", "n">>,
            <<"g", "l">>,
            <<"o", "u", "t">>,
            <<"g", "o", "a", "l">>}

Kinds20 == {<<"m", "t", "r">>}

\* the bonus of a kind tag: case-insensitive, 0 for an unknown, empty or
\* absent tag
ClaimBonus(name) ==
    IF name.t # "str" THEN D0
    ELSE LET k == StrLower(name.s)
         IN  IF k \in Kinds40 THEN D040
             ELSE IF k \in Kinds30 THEN D030
             ELSE IF k \in Kinds20 THEN D020
             ELSE D0

\* index / 100
ClaimFactor(f) == DecDiv(DecFromInt(IntOf(f.dmst_index)), DecFromInt(100))

\* distance * multiplier / (index / 100)
ClaimScore(distance, multiplier, f) ==
    DecDiv(DecMul(DecOf(distance), multiplier), ClaimFactor(f))

\* a value v that is Some(d) with d numerically equal to x
IsValue(v, x) == v # None /\ DecEq(v[1], x)

\* the record has a present handicap index whose integer value is nonzero
\* and a contest named exactly "au"
Counted(f) ==
    /\ ~IsNone(f.dmst_index)
    /\ IntOf(f.dmst_index) # 0
    /\ \E i \in 1..Len(f.contest.items) : f.contest.items[i].name = JStr(S_au)

\* the record in flight has been processed and its result stored
Scored ==
    /\ pc \in {"loop", "done"}
    /\ Counted(flight)
    /\ results # <<>>

NonZero(v) == ~IsNone(v) /\ v.n # 0

\* the fields of the au contest's score and of the task, as the claims name them
AuDistance == AuScore(flight).distance

AuName == AuScore(flight).name

AuDeclaredFlag == AuScore(flight).declared

\* path 1: a task sub-record with nonzero distance exists
Path1 == flight.task.t = "dict" /\ NonZero(flight.task.distance)

Path1Value ==
    ClaimScore(flight.task.distance,
               DecAdd(DecAdd(D1, ClaimBonus(flight.task.kind)),
                      IF IsTrue(flight.task_achieved) THEN D030 ELSE D0),
               flight)

Path2Value ==
    ClaimScore(AuDistance, DecAdd(DecAdd(D1, ClaimBonus(AuName)), D030), flight)

\* path 2 as claimed: no task sub-record at all
Path2Claimed ==
    /\ ~Path1
    /\ flight.task.t = "null"
    /\ Truthy(AuDeclaredFlag)
    /\ NonZero(AuDistance)

\* path 2 of the code: no task sub-record with a nonzero distance
Path2 ==
    /\ ~Path1
    /\ Truthy(AuDeclaredFlag)
    /\ NonZero(AuDistance)

\* C1: once a record with an au score declared exactly false and a computed
\* free score is processed, its stored task_expected is null, whatever task
\* data the record carries.
C1_OverridePrecedence ==
    (Scored /\ IsFalse(AuDeclaredFlag) /\ res.free_expected # None)
        => /\ res.task_expected = None
           /\ results[Len(results)].task_expected = None

C1_Witness ==
    /\ Scored
    /\ IsFalse(AuDeclaredFlag)
    /\ res.free_expected # None
    /\ Path1
    /\ res.task_notes = "actual"
    /\ results[Len(results)].task_expected = None

\* C2 as claimed: before the override, task_expected follows path 1, else
\* path 2 only if there is no task sub-record, else stays null.
C2_AsClaimed ==
    pc = "override" =>
        IF Path1 THEN IsValue(res.task_expected, Path1Value)
        ELSE IF Path2Claimed THEN IsValue(res.task_expected, Path2Value)
        ELSE res.task_expected = None

\* C2 amended: before the override, task_expected follows path 1 if a task
\* sub-record with nonzero distance exists; otherwise (no task sub-record, or
\* one whose distance is absent or zero) path 2 if the au declared flag is
\* truthy and the au distance is present and nonzero; otherwise it is null.
C2_PathSelection ==
    pc = "override" =>
        IF Path1 THEN IsValue(res.task_expected, Path1Value)
        ELSE IF Path2 THEN IsValue(res.task_expected, Path2Value)
        ELSE res.task_expected = None

C2_Witness ==
    /\ pc = "override"
    /\ flight.task.t = "dict"
    /\ ~Path1
    /\ Path2
    /\ IsValue(res.task_expected, Path2Value)

C4_FreeScore ==
    (pc = "override" \/ Scored) =>
        /\ res.free_expected # None <=> NonZero(AuDistance)
        /\ NonZero(AuDistance) =>
              IsValue(res.free_expected,
                      ClaimScore(AuDistance, DecAdd(D1, ClaimBonus(AuName)), flight))
        /\ Scored => results[Len(results)].free_expected = res.free_expected

C4_Witness ==
    /\ Scored
    /\ AuName = JStr(S_tr)
    /\ IntOf(flight.dmst_index) = 108
    /\ IsValue(res.free_expected, E388)

\* the record of a line has a truthy dmst_index that truncates to integer 0
TruncatesToZero(line) ==
    ~line.blank /\ Truthy(line.flight.dmst_index) /\ IntOf(line.flight.dmst_index) = 0

\* C9: no score is computed with an index factor of zero; a record whose
\* dmst_index is truthy but truncates to 0 is skipped before any division:
\* main() goes on to the next line and no result carries the record's id.
C9_NoDivisionByZero ==
    /\ pc # "error"
    /\ pc = "override" => ~DecIsZero(ClaimFactor(flight))
    /\ \A k \in 1..Len(read) :
          TruncatesToZero(read[k]) =>
              /\ res.flight_id # read[k].flight.id
              /\ \A j \in 1..Len(results) : results[j].flight_id # read[k].flight.id
              /\ k = Len(read) => pc \in {"loop", "done"}

C9_Witness ==
    /\ pc = "loop"
    /\ lineno = 1
    /\ TruncatesToZero(read[1])
    /\ flight.dmst_index \in {JFloat(5, -1), JStr(<<"0">>)}
    /\ NonZero(flight.contest.items[2].score.distance)
    /\ results = <<>>

CountedLine(line) == ~line.blank /\ Counted(line.flight)

\* the lines read so far whose record has a nonzero handicap index and an
\* au contest, in input order
CountedLines == SelectSeq(read, CountedLine)

\* C5: the results list holds exactly one result, in input order, for each
\* record read that has a present nonzero (integer) handicap index and a
\* contest named exactly "au", whether or not it has a distance; every other
\* line adds nothing; the printed checked count is the length of the list.
C5_CheckedCount ==
    LET done == IF pc = "override" THEN Front(CountedLines) ELSE CountedLines
    IN  /\ Len(results) = Len(done)
        /\ \A k \in 1..Len(done) :
              /\ results[k].flight_id = done[k].flight.id
              /\ results[k].dmst_index = IntOf(done[k].flight.dmst_index)
        /\ pc = "done" => out[1] = Summary("checked", Len(CountedLines))

C5_Witness ==
    /\ pc = "done"
    /\ Len(read) = 3
    /\ CountedLine(read[1])
    /\ IsNone(AuScore(read[1].flight).distance)
    /\ ~read[2].blank
    /\ read[2].flight.dmst_index = JInt(0)
    /\ CountedLine(read[3])
    /\ Len(results) = 2
    /\ results[2].flight_id = JInt(3)
    /\ out[1].n = 2

WithinTolerance(e, a) ==
    LET d == ExactAdd(e, DecNeg(a))
    IN  DecCmp(Dec(0, d.int, d.exp), Dec(0, <<2>>, -1)) <= 0

\* C6: a result with both values non-null is a match exactly when the
\* absolute difference is at most 0.2, whichever value is the larger.
C6_ToleranceBoundary ==
    pc = "done" =>
        \A k \in 1..Len(results) :
            /\ (results[k].free_expected # None /\ results[k].free_actual # None)
                  => (~InSeq(k, free_mismatches)
                        <=> WithinTolerance(results[k].free_expected[1],
                                            results[k].free_actual[1]))
            /\ (results[k].task_expected # None /\ results[k].task_actual # None)
                  => (~InSeq(k, task_mismatches)
                        <=> WithinTolerance(results[k].task_expected[1],
                                            results[k].task_actual[1]))

\* a free difference of exactly 0.2 matches, a task difference of 0.2000001
\* does not
C6_Witness ==
    /\ pc = "done"
    /\ \E k \in 1..Len(results) :
          /\ results[k].free_expected = Some(E420)
          /\ results[k].free_actual = Some(Dec(0, <<4, 1, 9, 8>>, -1))
          /\ ~InSeq(k, free_mismatches)
          /\ results[k].task_expected = Some(Dec(0, <<5, 0, 9, 7, 9, 9, 9, 9, 9, 9>>, -7))
          /\ results[k].task_actual = Some(E510)
          /\ InSeq(k, task_mismatches)

\* C7: a result whose expected or actual value is null for a score type is
\* in no mismatch list of that type, whatever the other type's values are.
C7_VacuousMatch ==
    pc = "done" =>
        \A k \in 1..Len(results) :
            /\ (results[k].free_expected = None \/ results[k].free_actual = None)
                  => ~InSeq(k, free_mismatches)
            /\ (results[k].task_expected = None \/ results[k].task_actual = None)
                  => ~InSeq(k, task_mismatches)

C7_Witness ==
    /\ pc = "done"
    /\ \E k \in 1..Len(results) :
          /\ results[k].free_expected # None
          /\ results[k].free_actual = None
          /\ ~InSeq(k, free_mismatches)
          /\ InSeq(k, task_mismatches)

\* the printed lines after the header of the given kind, up to the next header
RECURSIVE SectionFrom(_)
SectionFrom(lines) ==
    IF lines = <<>> \/ lines[1].fmt \notin {"free", "task"} THEN <<>>
    ELSE <<lines[1]>> \o SectionFrom(Tail(lines))

Section(header) ==
    IF \E k \in 1..Len(out) : out[k].fmt = header
    THEN SectionFrom(SubSeq(out, (CHOOSE k \in 1..Len(out) : out[k].fmt = header) + 1,
                            Len(out)))
    ELSE <<>>

====
